---- MODULE Spec2Model ----
(***************************************************************************)
(* Model of the hybrid SQL RAG engine (sql_rag_hybrid.py, sql_rag_cloud.py, *)
(* sql_rag.py) and of the request handling of its callers (app_hybrid.py,   *)
(* app_cloud.py, app.py and the __main__ demo loops).                       *)
(*                                                                         *)
(* Text is modelled as a sequence of tokens; Python's None is the record    *)
(* None; a method is an operator from the environment's answers (vector     *)
(* store, generation service, database) to an outcome record that either    *)
(* returns a value or raises an error.                                      *)
(***************************************************************************)
EXTENDS Integers, Sequences, FiniteSets, TLC

\* ------------------------------------------------------------- bounds
NumItems == 3       \* entries of DATABASE_KNOWLEDGE that are modelled
MaxDist == 1        \* distances are drawn from 0..MaxDist
MaxK == 3           \* n_results of a direct _search_knowledge call: 1..MaxK
MaxCols == 2        \* columns of a result set
MaxRows == 2        \* rows of a result set
MaxRequests == 2    \* questions handled in one process
MaxInits == 3       \* engines constructed on the shared collection
MaxLen == 6         \* tokens of a raw generation output given to the clean-up
MaxStore == 6       \* entries of the collection a direct prompt build searches: 0..MaxStore
MaxCompositions == 2 \* prompts built one after the other on one engine
MaxLongRows == 12   \* rows of a result set handed to explain_results: 0..MaxLongRows
NumSessions == 2    \* sessions that call get_rag_engine in one process
MaxStatements == 2  \* statements in one query text handed to execute_sql
MaxChats == 2       \* chats of one session
MaxMessages == 2    \* messages in the chats of one session
MaxClock == 1       \* seconds that pass during one session

\* ------------------------------------------------- program constants
DefaultK == 5       \* n_results passed by generate_sql
TitleChars == 50    \* question[:50] in add_message_to_chat
SampleRows == 10    \* rows of the result shown to the explanation prompt

None == [kind |-> "none"]

Min(a, b) == IF a < b THEN a ELSE b

\* ---------------------------------------------------- knowledge store
\* DATABASE_KNOWLEDGE: a list of {id, content, metadata}; ids and contents
\* are pairwise distinct in the source list.
ContentPool ==
    <<"content1", "content2", "content3", "content4", "content5", "content6",
      "content7", "content8">>

DATABASE_KNOWLEDGE ==
    [i \in 1..NumItems |->
        [id |-> i, content |-> <<ContentPool[i]>>, metadata |-> [type |-> "business_rule"]]]

ItemIds == {DATABASE_KNOWLEDGE[i].id : i \in 1..NumItems}

\* The embedding distance of a query text to every stored item.
DistanceMaps == [ItemIds -> 0..MaxDist]

\* existing_count > 0 in _load_knowledge_base: the collection is reused.
\* Variant: the check is missing.
AlreadyLoadedNever(coll) == FALSE

AlreadyLoaded(coll) == Len(coll) > 0

\* collection.add(documents, metadatas, ids) over the whole list.
CollectionAdd(coll) ==
    coll \o [i \in 1..NumItems |->
                [id |-> DATABASE_KNOWLEDGE[i].id,
                 document |-> DATABASE_KNOWLEDGE[i].content,
                 metadata |-> DATABASE_KNOWLEDGE[i].metadata]]

\* collection.query(query_texts=[q], n_results=n): the answers the vector
\* store may give: the min(n, count) nearest entries in non-decreasing
\* distance; the order among equal distances is the store's choice.
CollectionQuery(coll, dist, n) ==
    LET N == Len(coll)
        m == Min(n, N)
        picks == { r \in [1..m -> 1..N] :
                     /\ \A i, j \in 1..m :
                          i < j => /\ r[i] # r[j]
                                   /\ dist[coll[r[i]].id] <= dist[coll[r[j]].id]
                     /\ \A x \in 1..N :
                          (\A i \in 1..m : r[i] # x) =>
                             \A i \in 1..m : dist[coll[r[i]].id] <= dist[coll[x].id] }
    IN { [documents |-> << [i \in 1..m |-> coll[r[i]].document] >>,
          metadatas |-> << [i \in 1..m |-> coll[r[i]].metadata] >>,
          distances |-> << [i \in 1..m |-> dist[coll[r[i]].id]] >>] : r \in picks }

\* The formatting loop of _search_knowledge over results['documents'][0].
\* Variant: every document is appended twice.
FormatKnowledgeDoubled(results) ==
    LET docs == results.documents[1]
    IN [i \in 1..(2 * Len(docs)) |->
          [content |-> docs[(i + 1) \div 2],
           metadata |-> results.metadatas[1][(i + 1) \div 2],
           distance |-> results.distances[1][(i + 1) \div 2]]]

FormatKnowledge(results) ==
    LET docs == results.documents[1]
    IN IF Len(results.documents) > 0 /\ Len(docs) > 0
       THEN [i \in 1..Len(docs) |->
               [content |-> docs[i],
                metadata |-> IF Len(results.metadatas) > 0
                             THEN results.metadatas[1][i] ELSE [type |-> "unknown"],
                distance |-> IF Len(results.distances) > 0
                             THEN results.distances[1][i] ELSE None]]
       ELSE <<>>

\* _search_knowledge(query, n_results): every list it may return.
SearchKnowledge(coll, dist, n) ==
    { FormatKnowledge(res) : res \in CollectionQuery(coll, dist, n) }

\* ----------------------------------------------------------------- text
\* The three-backtick fence marker as one token.
FENCE == "<fence>"
NL == "<nl>"
SP == "<sp>"

IsSpace(t) == t \in {NL, SP}

RECURSIVE LStrip(_)
LStrip(s) == IF s = <<>> THEN s
             ELSE IF IsSpace(Head(s)) THEN LStrip(Tail(s)) ELSE s

RECURSIVE RStrip(_)
RStrip(s) == IF s = <<>> THEN s
             ELSE IF IsSpace(s[Len(s)]) THEN RStrip(SubSeq(s, 1, Len(s) - 1)) ELSE s

\* str.strip()
Strip(s) == RStrip(LStrip(s))

\* str.startswith(p)
StartsWith(s, p) == Len(s) >= Len(p) /\ SubSeq(s, 1, Len(p)) = p

\* str.replace(p, ""): every non-overlapping occurrence, left to right.
RECURSIVE Remove(_, _)
Remove(s, p) ==
    IF s = <<>> THEN <<>>
    ELSE IF StartsWith(s, p) THEN Remove(SubSeq(s, Len(p) + 1, Len(s)), p)
    ELSE <<Head(s)>> \o Remove(Tail(s), p)

Contains(s, t) == \E i \in 1..Len(s) : s[i] = t

RECURSIVE Concat(_)
Concat(ss) == IF ss = <<>> THEN <<>> ELSE Head(ss) \o Concat(Tail(ss))

NumberPool == <<"1", "2", "3", "4", "5", "6", "7", "8">>

\* ------------------------------------------------------- generate_sql
\* The markdown clean-up of the raw generation output.
\* Variant: the text is not stripped after the fences are removed.
CleanSqlNoStrip(text) ==
    LET s == Strip(text)
    IN IF StartsWith(s, <<FENCE, "sql">>)
       THEN Remove(Remove(s, <<FENCE, "sql">>), <<FENCE>>)
       ELSE IF StartsWith(s, <<FENCE>>)
       THEN Remove(s, <<FENCE>>)
       ELSE text

CleanSql(text) ==
    LET s == Strip(text)
    IN IF StartsWith(s, <<FENCE, "sql">>)
       THEN Strip(Remove(Remove(s, <<FENCE, "sql">>), <<FENCE>>))
       ELSE IF StartsWith(s, <<FENCE>>)
       THEN Strip(Remove(s, <<FENCE>>))
       ELSE s

\* knowledge_context: the label, then "\n{i}. {content}\n" per item.
\* Variant: the content of an item is cut after its first token.
KnowledgeContextCut(knowledge) ==
    <<NL, NL, "RELEVANT KNOWLEDGE:", NL>> \o
    Concat([i \in 1..Len(knowledge) |->
              <<NL, NumberPool[i], ". ">> \o SubSeq(knowledge[i].content, 1, 1) \o <<NL>>])

KnowledgeContext(knowledge) ==
    <<NL, NL, "RELEVANT KNOWLEDGE:", NL>> \o
    Concat([i \in 1..Len(knowledge) |->
              <<NL, NumberPool[i], ". ">> \o knowledge[i].content \o <<NL>>])

InstructionSuffix ==
    <<"Using the database schema and relevant knowledge above, generate a PostgreSQL query to answer this question.",
      NL, "Return ONLY the SQL query, no explanations or markdown formatting.",
      NL, "Make sure to follow any business rules mentioned in the knowledge.">>

\* The prompt f-string of generate_sql.
\* Variant: the question is placed before the knowledge block.
ComposePromptQuestionFirst(schema, knowledge, q) ==
    schema \o <<NL, NL, "USER QUESTION: ", q, NL>> \o KnowledgeContext(knowledge) \o
    <<NL, NL>> \o InstructionSuffix

ComposePrompt(schema, knowledge, q) ==
    schema \o <<NL>> \o KnowledgeContext(knowledge) \o
    <<NL, NL, "USER QUESTION: ", q, NL, NL>> \o InstructionSuffix

Raise(type, msg) == [kind |-> "raise", exc |-> [type |-> type, msg |-> msg]]
Return(v) == [kind |-> "return", value |-> v]

\* Answers of the generation service to successive calls: a text or a failure.
GenTexts ==
    { <<"SELECT 1;">>,
      <<FENCE, "sql", NL, "SELECT 1;", NL, FENCE>>,
      <<FENCE, NL, "SELECT 2;", NL, FENCE, NL>> }

ServiceErrors == {"overloaded"}

GenResponses ==
    { [ok |-> TRUE, text |-> t] : t \in GenTexts } \cup
    { [ok |-> FALSE, msg |-> m] : m \in ServiceErrors }

\* The try block of generate_sql: the call of client.messages.create and the
\* clean-up; resps are the service's answers to the calls made, in order.
\* calls is the number of calls made.
\* Variant: a failed call is tried once more.
GenerateCallRetry(pr, resps) ==
    IF resps[1].ok
    THEN [out |-> Return(CleanSql(resps[1].text)), calls |-> 1]
    ELSE IF resps[2].ok
    THEN [out |-> Return(CleanSql(resps[2].text)), calls |-> 2]
    ELSE [out |-> Raise("Exception", <<"Error generating SQL: ", resps[2].msg>>),
          calls |-> 2]

GenerateCall(pr, resps) ==
    IF resps[1].ok
    THEN [out |-> Return(CleanSql(resps[1].text)), calls |-> 1]
    ELSE [out |-> Raise("Exception", <<"Error generating SQL: ", resps[1].msg>>),
          calls |-> 1]

\* -------------------------------------------------------- execute_sql
ColumnPool == <<"sum", "name", "total", "status">>

\* cursor.description and the rows fetchall yields for it: one descriptor per
\* column, every row aligned to the descriptors (the driver's contract).
ResultSets ==
    { [description |-> [kind |-> "desc",
                        cols |-> [j \in 1..c |-> [name |-> ColumnPool[j],
                                                  type_code |-> "numeric"]]],
       rows |-> [i \in 1..r |-> [j \in 1..c |-> (10 * i) + j]]]
      : c \in 0..MaxCols, r \in 0..MaxRows }

NoResultSet == [description |-> None, rows |-> <<>>]

\* What the database does during one call: connect, cursor.execute, fetchall
\* each succeed ("ok") or report a message.
DbResponses ==
    { [connect |-> "could not connect to server", execute |-> "ok",
       rs |-> NoResultSet, fetch |-> "ok"],
      [connect |-> "ok", execute |-> "syntax error at or near", rs |-> NoResultSet,
       fetch |-> "ok"],
      [connect |-> "ok", execute |-> "ok", rs |-> NoResultSet,
       fetch |-> "no results to fetch"] } \cup
    { [connect |-> "ok", execute |-> "ok", rs |-> rs, fetch |-> f]
      : rs \in ResultSets, f \in {"ok", "server closed the connection"} }

\* The step at which the database reported a fault, and its message.
DbFault(db) ==
    IF db.connect # "ok" THEN [step |-> "connect", msg |-> db.connect]
    ELSE IF db.execute # "ok" THEN [step |-> "execute", msg |-> db.execute]
    ELSE IF db.fetch # "ok" THEN [step |-> "fetchall", msg |-> db.fetch]
    ELSE None

\* Python truthiness of cursor.description (None and () are false).
Truthy(description) ==
    description.kind = "desc" /\ Len(description.cols) > 0

ResultSet(columns, rows, n) ==
    [kind |-> "resultset", columns |-> columns, rows |-> rows, row_count |-> n]

\* execute_sql(sql_query): its outcome, and the connections it opened and
\* closed (conn.close() is reached on the normal path only).
\* Variant: a fault is swallowed and None returned.
ExecuteSqlSwallow(sql, db) ==
    IF DbFault(db) # None
    THEN [out |-> Return(None), opened |-> 0, closed |-> 0]
    ELSE [out |-> Return(ResultSet(<<>>, db.rs.rows, Len(db.rs.rows))),
          opened |-> 1, closed |-> 1]

\* Variant: row_count is taken from the column list.
ExecuteSqlCountsColumns(sql, db) ==
    IF DbFault(db) # None
    THEN [out |-> Raise("Exception", <<"Error executing SQL: ", DbFault(db).msg>>),
          opened |-> 0, closed |-> 0]
    ELSE LET columns == [j \in 1..Len(db.rs.description.cols) |->
                            db.rs.description.cols[j].name]
         IN [out |-> Return(ResultSet(columns, db.rs.rows, Len(columns))),
             opened |-> 1, closed |-> 1]

\* Variant: the raised error leaves out str(e).
ExecuteSqlDropsMessage(sql, db) ==
    IF DbFault(db) # None
    THEN [out |-> Raise("Exception", <<"Error executing SQL">>),
          opened |-> 0, closed |-> 0]
    ELSE LET columns == [j \in 1..Len(db.rs.description.cols) |->
                            db.rs.description.cols[j].name]
         IN [out |-> Return(ResultSet(columns, db.rs.rows, Len(db.rs.rows))),
             opened |-> 1, closed |-> 1]

ExecuteSql(sql, db) ==
    IF db.connect # "ok"
    THEN [out |-> Raise("Exception", <<"Error executing SQL: ", db.connect>>),
          opened |-> 0, closed |-> 0]
    ELSE IF db.execute # "ok"
    THEN [out |-> Raise("Exception", <<"Error executing SQL: ", db.execute>>),
          opened |-> 1, closed |-> 0]
    ELSE LET columns == IF Truthy(db.rs.description)
                        THEN [j \in 1..Len(db.rs.description.cols) |->
                                 db.rs.description.cols[j].name]
                        ELSE <<>>
         IN IF db.fetch # "ok"
            THEN [out |-> Raise("Exception", <<"Error executing SQL: ", db.fetch>>),
                  opened |-> 1, closed |-> 0]
            ELSE [out |-> Return(ResultSet(columns, db.rs.rows, Len(db.rs.rows))),
                  opened |-> 1, closed |-> 1]

\* ---------------------------------------------------- explain_results
ExplainTexts == { <<NL, "The total is 150.", SP>> }

ExplainResponses ==
    { [ok |-> TRUE, text |-> t] : t \in ExplainTexts } \cup
    { [ok |-> FALSE, msg |-> m] : m \in ServiceErrors }

\* results_text and the prompt of explain_results.
\* Variant: every row of the result is written, not the first ten.
ExplainPromptAllRows(q, sql, results) ==
    [question |-> q, sql |-> sql, columns |-> results.columns,
     row_count |-> results.row_count,
     sample |-> IF results.row_count > 0 THEN results.rows ELSE <<>>]

ExplainPrompt(q, sql, results) ==
    [question |-> q, sql |-> sql, columns |-> results.columns,
     row_count |-> results.row_count,
     sample |-> IF results.row_count > 0
                THEN SubSeq(results.rows, 1, Min(SampleRows, Len(results.rows)))
                ELSE <<>>]

\* explain_results(question, sql, results): one service call; a failure of
\* the call becomes the returned text.
\* Variant: the failure is raised instead of returned.
ExplainResultsRaises(q, sql, results, resp) ==
    IF resp.ok
    THEN [out |-> Return(Strip(resp.text)), calls |-> 1]
    ELSE [out |-> Raise("Exception", <<"Error generating explanation: ", resp.msg>>),
          calls |-> 1]

ExplainResults(q, sql, results, resp) ==
    IF resp.ok
    THEN [out |-> Return(Strip(resp.text)), calls |-> 1]
    ELSE [out |-> Return(<<"Error generating explanation: ", resp.msg>>), calls |-> 1]

\* ------------------------------------------------ _get_schema_context
Catalog ==
    << [table |-> "customers", column |-> "customer_id", dtype |-> "integer",
        nullable |-> "NO"],
       [table |-> "customers", column |-> "email", dtype |-> "text", nullable |-> "YES"],
       [table |-> "orders", column |-> "order_id", dtype |-> "integer",
        nullable |-> "NO"] >>

SchemaDbResponses ==
    { [connect |-> "could not connect to server", execute |-> "ok", rows |-> <<>>],
      [connect |-> "ok", execute |-> "permission denied", rows |-> <<>>],
      [connect |-> "ok", execute |-> "ok", rows |-> Catalog] }

\* The loop over schema_info, with current_table carried along.
RECURSIVE SchemaLines(_, _)
SchemaLines(rows, current) ==
    IF rows = <<>> THEN <<>>
    ELSE LET r == Head(rows)
             header == IF r.table # current
                       THEN (IF current # "" THEN <<NL>> ELSE <<>>) \o
                            <<"Table: ", r.table, NL>>
                       ELSE <<>>
             null_str == IF r.nullable = "YES" THEN "NULL" ELSE "NOT NULL"
         IN header \o <<"  - ", r.column, ": ", r.dtype, " (", null_str, ")", NL>> \o
            SchemaLines(Tail(rows), r.table)

Relationships ==
    <<NL, "RELATIONSHIPS:", NL,
      "- orders.customer_id -> customers.customer_id", NL,
      "- order_items.order_id -> orders.order_id", NL,
      "- order_items.product_id -> products.product_id", NL>>

\* _get_schema_context(): the text, "" when anything raised; conn.close()
\* is reached on the normal path only.
GetSchemaContext(db) ==
    IF db.connect # "ok" THEN [text |-> <<>>, opened |-> 0, closed |-> 0]
    ELSE IF db.execute # "ok" THEN [text |-> <<>>, opened |-> 1, closed |-> 0]
    ELSE [text |-> <<"DATABASE SCHEMA:", NL, NL>> \o SchemaLines(db.rows, "") \o
                   Relationships,
          opened |-> 1, closed |-> 1]

\* ----------------------------------------------- _load_knowledge_base
\* addOk: whether collection.add (embedding and insertion) succeeds.
\* Variant: the items are added one by one and a failure keeps the first.
LoadKnowledgeBasePartial(coll, addOk) ==
    IF AlreadyLoaded(coll)
    THEN [coll |-> coll, adds |-> 0, out |-> Return(None)]
    ELSE IF addOk
    THEN [coll |-> CollectionAdd(coll), adds |-> 1, out |-> Return(None)]
    ELSE [coll |-> SubSeq(CollectionAdd(coll), 1, Len(coll) + 1), adds |-> 1,
          out |-> Raise("StoreError", <<"embedding failed">>)]

LoadKnowledgeBase(coll, addOk) ==
    IF AlreadyLoaded(coll)
    THEN [coll |-> coll, adds |-> 0, out |-> Return(None)]
    ELSE IF addOk
    THEN [coll |-> CollectionAdd(coll), adds |-> 1, out |-> Return(None)]
    ELSE [coll |-> coll, adds |-> 1,
          out |-> Raise("StoreError", <<"embedding failed">>)]

\* --------------------------------------------------- _search_knowledge
RetrievalFailure ==
    [ok |-> FALSE, dist |-> [i \in ItemIds |-> 0], msg |-> "embedding failed"]

RetrievalEnvs == { [ok |-> TRUE, dist |-> d] : d \in DistanceMaps } \cup {RetrievalFailure}

\* The environments drawn while a request runs: nearest or farthest only.
RequestEnvs ==
    { [ok |-> TRUE, dist |-> d] : d \in [ItemIds -> {0, MaxDist}] } \cup {RetrievalFailure}

\* Outcomes of _search_knowledge: an error of the store propagates as it is.
\* Variant: an empty result is raised as an error.
SearchOutcomesRejectEmpty(coll, env, n) ==
    IF env.ok
    THEN { IF k = <<>> THEN Raise("StoreError", <<"no matching knowledge">>) ELSE Return(k)
           : k \in SearchKnowledge(coll, env.dist, n) }
    ELSE { Raise("StoreError", <<env.msg>>) }

SearchOutcomes(coll, env, n) ==
    IF env.ok
    THEN { Return(k) : k \in SearchKnowledge(coll, env.dist, n) }
    ELSE { Raise("StoreError", <<env.msg>>) }

\* -------------------------------------------------------------- callers
\* app_hybrid.py (chat input handling), app_cloud.py (Ask button) and the
\* __main__ demo loop of sql_rag_hybrid.py.
Callers == {"app_hybrid", "app_cloud", "demo"}

Questions == {"What is our total revenue?"}

\* The parameters query() declares besides self.
QueryParameters == {"natural_language_query"}

\* The arguments each caller passes to rag.query.
CallArguments(c) ==
    IF c = "app_hybrid"
    THEN {"natural_language_query", "conversation_history"}
    ELSE {"natural_language_query"}

\* Binding the call's arguments to query()'s parameters.
CallQuery(c) ==
    IF CallArguments(c) \subseteq QueryParameters
    THEN Return(None)
    ELSE Raise("TypeError",
               <<"query() got an unexpected keyword argument conversation_history">>)

\* The dictionary query() returns.
QueryReturn(sql, results, knowledge) ==
    [kind |-> "result", sql |-> sql, results |-> results,
     relevant_knowledge |-> knowledge]

NoResultsMessage == <<"No results found for this query.">>

\* What the caller does with the result of query(): the applications call
\* explain_results when row_count > 0 and show the fixed message otherwise;
\* the demo loop calls explain_results for every result.
\* Variant: an empty result sends the request back to generation.
AfterQueryRegenerates(c, results) ==
    IF results.row_count > 0 THEN "explaining" ELSE "generating"

AfterQuery(c, results) ==
    IF c = "demo" THEN "explaining"
    ELSE IF results.row_count > 0 THEN "explaining" ELSE "done"

Text(t) == [kind |-> "text", text |-> t]

\* except Exception as e: the caller keeps str(e) only.
Caught(exc) == [kind |-> "error", msg |-> exc.msg]

Fault(stage, step, msg) == [kind |-> "fault", stage |-> stage, step |-> step, msg |-> msg]

\* The dictionary add_message_to_chat appends (its timestamp left out).
ChatMessage(q, sql, results, knowledge, ans, chart, err) ==
    [question |-> q, sql |-> sql, results |-> results, relevant_knowledge |-> knowledge,
     answer |-> ans, chart_data |-> chart, error |-> err]

\* The message a caller keeps of a finished request: app_hybrid appends one to
\* the current chat in its success branch and in its except branch; the other
\* callers keep none.
KeptMessages(c, stage, q, result, ans, err) ==
    IF c # "app_hybrid" THEN <<>>
    ELSE IF stage = "error"
    THEN << ChatMessage(q, None, None, <<>>, None, None, Text(err.msg)) >>
    ELSE << ChatMessage(q, Text(result.sql), result.results, result.relevant_knowledge,
                        ans, None, None) >>

\* ------------------------------------------------ app_hybrid: the session
\* APP_PASSWORD as configured (the default of password_entered).
AppPassword == "demo123"

Passwords == {AppPassword, "letmein"}

\* The questions typed in a session, and len(question).
ChatQuestions ==
    {"What is our total revenue?",
     "Which customers placed the most orders over the last twelve months?"}

QuestionChars ==
    [q \in ChatQuestions |-> IF q = "What is our total revenue?" THEN 26 ELSE 67]

\* A title: the first chars characters of text, then suffix.
NewChatTitle == [text |-> "New Chat", chars |-> 8, suffix |-> ""]

TitleOf(q) ==
    [text |-> q, chars |-> Min(QuestionChars[q], TitleChars),
     suffix |-> IF QuestionChars[q] > TitleChars THEN "..." ELSE ""]

\* password_entered(): the on_change callback of the password input.
PasswordEntered(entered) ==
    IF entered = AppPassword
    THEN [password_correct |-> "True", password |-> "absent"]
    ELSE [password_correct |-> "False", password |-> entered]

\* check_password(): whether the script goes on past st.stop().
\* Variant: any answer of the callback opens the gate.
CheckPasswordLenient(correct) == correct # "absent"

CheckPassword(correct) == correct = "True"

\* datetime.now().strftime("%Y%m%d_%H%M%S"): the clock to the second.
ChatId(now) == [kind |-> "id", stamp |-> now]

\* create_new_chat(): the new chat (its created_at left out) goes first.
CreateNewChat(cs, now) ==
    [chats |-> << [id |-> ChatId(now), title |-> NewChatTitle, messages |-> <<>>] >> \o cs,
     current |-> ChatId(now)]

\* get_current_chat(): the position of the first chat with the current id,
\* 0 for None.
GetCurrentChat(cs, cur) ==
    IF cur = None \/ ~ \E i \in 1..Len(cs) : cs[i].id = cur
    THEN 0
    ELSE CHOOSE i \in 1..Len(cs) :
            /\ cs[i].id = cur
            /\ \A j \in 1..(i - 1) : cs[j].id # cur

\* add_message_to_chat(...): append to the current chat, and title it when
\* the message is its first and the title is still "New Chat".
\* Variant: every message titles the chat.
AddMessageToChatRetitling(cs, cur, msg) ==
    LET i == GetCurrentChat(cs, cur)
    IN IF i = 0 THEN cs
       ELSE [cs EXCEPT ![i] = [id |-> cs[i].id,
                               title |-> TitleOf(msg.question),
                               messages |-> Append(cs[i].messages, msg)]]

AddMessageToChat(cs, cur, msg) ==
    LET i == GetCurrentChat(cs, cur)
    IN IF i = 0 THEN cs
       ELSE LET messages == Append(cs[i].messages, msg)
            IN [cs EXCEPT ![i] = [id |-> cs[i].id,
                                  title |-> IF Len(messages) = 1 /\ cs[i].title = NewChatTitle
                                            THEN TitleOf(msg.question)
                                            ELSE cs[i].title,
                                  messages |-> messages]]

\* delete_chat(chat_id).
\* Variant: the current chat id is left as it is.
DeleteChatKeepsCurrent(cs, cur, id) ==
    [chats |-> SelectSeq(cs, LAMBDA c : c.id # id), current |-> cur]

DeleteChat(cs, cur, id) ==
    LET rest == SelectSeq(cs, LAMBDA c : c.id # id)
    IN [chats |-> rest,
        current |-> IF cur = id
                    THEN (IF rest # <<>> THEN rest[1].id ELSE None)
                    ELSE cur]

\* The sidebar lists a chat unless it is an empty "New Chat".
Displayed(c) == ~ (c.title = NewChatTitle /\ Len(c.messages) = 0)

\* The buttons of a listed chat carry its id in their keys: the script run
\* stops with DuplicateWidgetID at a listed chat whose id an earlier listed
\* chat has.
Clash(cs, k) ==
    /\ Displayed(cs[k])
    /\ \E j \in 1..(k - 1) : Displayed(cs[j]) /\ cs[j].id = cs[k].id

SidebarBreaks(cs) == \E k \in 1..Len(cs) : Clash(cs, k)

Rendered(cs, i) ==
    /\ Displayed(cs[i])
    /\ \A k \in 1..i : ~ Clash(cs, k)

\* The messages one run of the chat-input handler appends: rag.query(...,
\* conversation_history=...), the answer, add_message_to_chat; any exception
\* ends in the except branch, which appends an error message.  The questions
\* of ChatQuestions ask for no chart.
ErrorMessage(q, exc) == ChatMessage(q, None, None, <<>>, None, None, Text(exc.msg))

PipelineMessage(q, schema, o, g, db, x) ==
    IF o.kind = "raise" THEN ErrorMessage(q, o.exc)
    ELSE LET gen == GenerateCall(ComposePrompt(schema, o.value, q), g).out
         IN IF gen.kind = "raise" THEN ErrorMessage(q, gen.exc)
            ELSE LET ex == ExecuteSql(gen.value, db).out
                 IN IF ex.kind = "raise" THEN ErrorMessage(q, ex.exc)
                    ELSE LET ans == IF AfterQuery("app_hybrid", ex.value) = "explaining"
                                    THEN ExplainResults(q, gen.value, ex.value, x).out
                                    ELSE Return(NoResultsMessage)
                         IN IF ans.kind = "raise" THEN ErrorMessage(q, ans.exc)
                            ELSE ChatMessage(q, Text(gen.value), ex.value, o.value,
                                             Text(ans.value), None, None)

HandlerMessages(q, coll, schema) ==
    LET call == CallQuery("app_hybrid")
    IN IF call.kind = "raise" THEN { ErrorMessage(q, call.exc) }
       ELSE { PipelineMessage(q, schema, o, g, db, x) :
                o \in UNION { SearchOutcomes(coll, env, DefaultK) : env \in RequestEnvs },
                g \in GenResponses \X GenResponses,
                db \in DbResponses,
                x \in ExplainResponses }

NoCalls == [retrieval |-> 0, generation |-> 0, execution |-> 0, explanation |-> 0]

\* ---------------------------------------------------------------- state
VARIABLES
    collection,         \* the entries of the "sql_knowledge" collection, in insertion order
    addCalls,           \* calls of collection.add made so far
    loadCalls,          \* calls of _load_knowledge_base made so far
    searchResult,       \* the last direct _search_knowledge call: k, the store's size, the outcome
    engineReady,        \* an engine has been constructed
    initCalls,          \* constructions of the engine attempted
    schema_context,     \* self.schema_context
    openConns,          \* connections opened and not closed, by the method that opened them
    reqCount,           \* requests finished
    caller,             \* the caller handling the current request
    pc,                 \* the stage of the current request
    question,           \* the question of the current request
    relevant_knowledge, \* generate_sql's relevant_knowledge
    prompt,             \* the prompt built by generate_sql
    sql_query,          \* the cleaned text generate_sql returns
    ret,                \* what query() returned to the caller
    answer,             \* the answer the caller shows
    error,              \* the error the caller shows
    explainPrompt,      \* the prompt explain_results built
    fault,              \* the failure the environment reported during this request
    trace,              \* the stages this request has entered, in order
    calls,              \* calls made during this request, per stage
    messages,           \* current_chat["messages"] of app_hybrid
    cleanResult,        \* the last direct run of the markdown clean-up: raw text, cleaned text
    composed,           \* the prompts built by direct runs of generate_sql's steps 1 to 3
    getEngine,          \* per session: its position in get_rag_engine()
    lock,               \* the session computing the cached engine, 0 when none
    committed,          \* the committed rows of the relational store
    execResult,         \* the last direct run of execute_sql: text, outcome
    chats,              \* st.session_state.chats
    current_chat_id,    \* st.session_state.current_chat_id
    password_correct,   \* st.session_state["password_correct"], "absent" when not set
    password,           \* st.session_state["password"], "absent" when not set
    clock,              \* datetime.now(), in seconds
    lastOp,             \* the last operation run on the session state
    page                \* what the last script run of the session rendered

storeVars == <<collection, addCalls, loadCalls>>
engineVars == <<engineReady, initCalls, schema_context>>
reqVars == <<reqCount, caller, pc, question, relevant_knowledge, prompt, sql_query,
             ret, answer, error, explainPrompt, fault, trace, calls>>
directVars == <<cleanResult, composed>>
startVars == <<getEngine, lock>>
dbVars == <<committed, execResult>>
chatVars == <<chats, current_chat_id, password_correct, password, clock, lastOp, page>>
sideVars == <<startVars, dbVars, chatVars>>
vars == <<storeVars, searchResult, engineVars, openConns, reqVars, messages, directVars,
          sideVars>>

\* The sessions of one process.
Sessions == 1..NumSessions

\* The rows the relational store holds when the program starts.
InitialRows == {"order 1", "order 2"}

\* No session has called get_rag_engine, the relational store is as it was set
\* up, and the session state is that of a new session at clock 0.
SideIdle ==
    /\ getEngine = [s \in Sessions |-> "none"]
    /\ lock = 0
    /\ committed = InitialRows
    /\ execResult = None
    /\ chats = <<>>
    /\ current_chat_id = None
    /\ password_correct = "absent"
    /\ password = "absent"
    /\ clock = 0
    /\ lastOp = None
    /\ page = "none"

Init ==
    /\ collection = <<>>
    /\ addCalls = 0
    /\ loadCalls = 0
    /\ searchResult = None
    /\ engineReady = FALSE
    /\ initCalls = 0
    /\ schema_context = <<>>
    /\ openConns = [schema |-> 0, execute |-> 0]
    /\ reqCount = 0
    /\ caller = "none"
    /\ pc = "idle"
    /\ question = ""
    /\ relevant_knowledge = <<>>
    /\ prompt = <<>>
    /\ sql_query = <<>>
    /\ ret = None
    /\ answer = None
    /\ error = None
    /\ explainPrompt = None
    /\ fault = None
    /\ trace = <<>>
    /\ calls = NoCalls
    /\ messages = <<>>
    /\ cleanResult = None
    /\ composed = <<>>
    /\ SideIdle

\* ------------------------------------------- engine construction, search
\* SQLRAGHybridEngine(): schema load, get_or_create_collection, knowledge
\* load.  Every engine of the process gets the same in-memory collection.
InitEngine ==
    /\ initCalls < MaxInits
    /\ initCalls' = initCalls + 1
    /\ \E sdb \in SchemaDbResponses, addOk \in BOOLEAN :
         LET s == GetSchemaContext(sdb)
             r == LoadKnowledgeBase(collection, addOk)
         IN /\ schema_context' = s.text
            /\ openConns' = [openConns EXCEPT !.schema = @ + s.opened - s.closed]
            /\ collection' = r.coll
            /\ addCalls' = addCalls + r.adds
            /\ engineReady' = (r.out.kind = "return")
    /\ loadCalls' = loadCalls + 1
    /\ UNCHANGED <<sideVars, searchResult, reqVars, messages, directVars>>

\* A direct call _search_knowledge(q, k), at any point between constructions.
StoreSearch ==
    /\ searchResult = None
    /\ \E k \in 1..MaxK, env \in RetrievalEnvs :
         \E o \in SearchOutcomes(collection, env, k) :
            searchResult' = [kind |-> "search", k |-> k, count |-> Len(collection),
                             out |-> o]
    /\ UNCHANGED <<sideVars, storeVars, engineVars, openConns, reqVars, messages, directVars>>

EngineNext == InitEngine \/ StoreSearch

SpecEngine == Init /\ [][EngineNext]_vars

\* ------------------------------------------------ get_rag_engine, startup
\* @st.cache_resource computes the value of a key under that key's lock: a
\* session that finds the lock taken waits for it.
\* Variant: the cache computes without a lock.
ComputeLockIgnored(holder) == TRUE

ComputeLockFree(holder) == holder = 0

Release(holder, s) == IF holder = s THEN 0 ELSE holder

\* A script run of session s reaches rag = get_rag_engine(): the cache is
\* read first, without the lock.  A run that failed is run again.
CallGetRagEngine(s) ==
    /\ getEngine[s] \in {"none", "failed"}
    /\ getEngine' = [getEngine EXCEPT ![s] = IF engineReady THEN "ready" ELSE "waiting"]
    /\ UNCHANGED <<storeVars, searchResult, engineVars, openConns, reqVars, messages,
                   directVars, lock, dbVars, chatVars>>

\* Session s takes the lock and reads the cache again; on a miss it starts
\* SQLRAGHybridEngine(): schema load, get_or_create_collection.
AcquireComputeLock(s) ==
    /\ getEngine[s] = "waiting"
    /\ ComputeLockFree(lock)
    /\ IF engineReady
       THEN /\ getEngine' = [getEngine EXCEPT ![s] = "ready"]
            /\ UNCHANGED <<lock, initCalls, schema_context, openConns>>
       ELSE /\ initCalls < MaxInits
            /\ initCalls' = initCalls + 1
            /\ lock' = s
            /\ getEngine' = [getEngine EXCEPT ![s] = "constructing"]
            /\ \E sdb \in SchemaDbResponses :
                 LET c == GetSchemaContext(sdb)
                 IN /\ schema_context' = c.text
                    /\ openConns' = [openConns EXCEPT !.schema = @ + c.opened - c.closed]
    /\ UNCHANGED <<storeVars, searchResult, engineReady, reqVars, messages, directVars,
                   dbVars, chatVars>>

\* _load_knowledge_base, first step: existing_count = self.collection.count().
\* A loaded store ends the load, and with it the construction: the engine is
\* stored in the cache and the lock released.
LoadCount(s) ==
    /\ getEngine[s] = "constructing"
    /\ loadCalls' = loadCalls + 1
    /\ IF AlreadyLoaded(collection)
       THEN /\ getEngine' = [getEngine EXCEPT ![s] = "ready"]
            /\ engineReady' = TRUE
            /\ lock' = Release(lock, s)
       ELSE /\ getEngine' = [getEngine EXCEPT ![s] = "counted"]
            /\ UNCHANGED <<engineReady, lock>>
    /\ UNCHANGED <<collection, addCalls, searchResult, initCalls, schema_context, openConns,
                   reqVars, messages, directVars, dbVars, chatVars>>

\* _load_knowledge_base, second step: the one collection.add of all items.
\* An add that fails raises out of the construction: nothing is cached.  An
\* add of ids the store already holds adds nothing, and the store either
\* ignores it or raises.
LoadAdd(s) ==
    /\ getEngine[s] = "counted"
    /\ addCalls' = addCalls + 1
    /\ lock' = Release(lock, s)
    /\ \E addOk \in BOOLEAN :
         /\ collection' = IF addOk /\ collection = <<>>
                           THEN CollectionAdd(collection) ELSE collection
         /\ getEngine' = [getEngine EXCEPT ![s] = IF addOk THEN "ready" ELSE "failed"]
         /\ engineReady' = (engineReady \/ addOk)
    /\ UNCHANGED <<loadCalls, searchResult, initCalls, schema_context, openConns,
                   reqVars, messages, directVars, dbVars, chatVars>>

\* A request of a session that holds the engine searches the store:
\* _search_knowledge(question, n_results=5).
ServeSearch(s) ==
    /\ getEngine[s] = "ready"
    /\ searchResult = None
    /\ \E env \in RequestEnvs :
         \E o \in SearchOutcomes(collection, env, DefaultK) :
            searchResult' = [kind |-> "search", k |-> DefaultK, count |-> Len(collection),
                             out |-> o]
    /\ UNCHANGED <<sideVars, storeVars, engineVars, openConns, reqVars, messages, directVars>>

StartupNext ==
    \E s \in Sessions :
        \/ CallGetRagEngine(s)
        \/ AcquireComputeLock(s)
        \/ LoadCount(s)
        \/ LoadAdd(s)
        \/ ServeSearch(s)

SpecStartup == Init /\ [][StartupNext]_vars

\* ------------------------------------------- execute_sql and the rows
\* The query text is whatever generate_sql returned: a list of statements.
\* SELECT reads; DELETE and INSERT write; COMMIT ends the transaction.
SqlStatements == {"SELECT", "DELETE", "INSERT", "COMMIT"}

SqlTexts == UNION { [1..n -> SqlStatements] : n \in 1..MaxStatements }

\* The server runs the statements of cursor.execute(sql_query) in order, in
\* the transaction the driver opened: writes change the transaction's rows,
\* COMMIT makes them the committed rows.
RECURSIVE ApplyStatements(_, _)
ApplyStatements(stmts, t) ==
    IF stmts = <<>> THEN t
    ELSE LET st == Head(stmts)
             u == IF st = "DELETE" THEN [t EXCEPT !.working = {}]
                  ELSE IF st = "INSERT"
                  THEN [t EXCEPT !.working = @ \cup {"order 3"}]
                  ELSE IF st = "COMMIT" THEN [t EXCEPT !.committed = t.working]
                  ELSE t
         IN ApplyStatements(Tail(stmts), u)

\* The responses the database may give to a query text: a result set exactly
\* when the last statement is a SELECT.
DbResponsesFor(sql) ==
    { db \in DbResponses :
        (db.connect = "ok" /\ db.execute = "ok") =>
            ((sql[Len(sql)] = "SELECT") <=> (db.rs # NoResultSet)) }

\* The committed rows after one call of execute_sql: no conn.commit() is
\* made, and conn.close() (or the loss of an unclosed connection) discards
\* what the transaction has not committed.  A statement that fails is the
\* failed-th: those before it ran.
CommittedAfter(sql, rows, db, failed) ==
    IF db.connect # "ok" THEN rows
    ELSE LET ran == IF db.execute # "ok" THEN SubSeq(sql, 1, failed - 1) ELSE sql
         IN ApplyStatements(ran, [committed |-> rows, working |-> rows]).committed

\* A direct call execute_sql(sql_query).
ExecuteDirect ==
    /\ \E sql \in SqlTexts :
         \E db \in DbResponsesFor(sql), failed \in 1..Len(sql) :
            LET r == ExecuteSql(sql, db)
            IN /\ committed' = CommittedAfter(sql, committed, db, failed)
               /\ execResult' = [sql |-> sql, out |-> r.out, before |-> committed]
               /\ openConns' = [openConns EXCEPT !.execute =
                                    Min(@ + r.opened - r.closed, MaxRequests)]
    /\ UNCHANGED <<storeVars, searchResult, engineVars, reqVars, messages, directVars,
                   startVars, chatVars>>

\* ------------------------------------------------------------- pipeline
\* The states in which a constructed engine starts to serve: the knowledge
\* is loaded, the schema text is whatever _get_schema_context returned.
InitServing ==
    /\ \E sdb \in SchemaDbResponses :
         LET s == GetSchemaContext(sdb)
         IN /\ schema_context = s.text
            /\ openConns = [schema |-> s.opened - s.closed, execute |-> 0]
    /\ collection = LoadKnowledgeBase(<<>>, TRUE).coll
    /\ addCalls = 1
    /\ loadCalls = 1
    /\ searchResult = None
    /\ engineReady = TRUE
    /\ initCalls = 1
    /\ reqCount = 0
    /\ caller = "none"
    /\ pc = "idle"
    /\ question = ""
    /\ relevant_knowledge = <<>>
    /\ prompt = <<>>
    /\ sql_query = <<>>
    /\ ret = None
    /\ answer = None
    /\ error = None
    /\ explainPrompt = None
    /\ fault = None
    /\ trace = <<>>
    /\ calls = NoCalls
    /\ messages = <<>>
    /\ cleanResult = None
    /\ composed = <<>>
    /\ SideIdle

\* A question arrives at a caller.
Submit ==
    /\ engineReady
    /\ pc = "idle"
    /\ reqCount < MaxRequests
    /\ \E c \in Callers, q \in Questions :
         /\ caller' = c
         /\ question' = q
    /\ pc' = "received"
    /\ trace' = <<"received">>
    /\ UNCHANGED <<sideVars, storeVars, searchResult, directVars, messages, engineVars, openConns, reqCount,
                   relevant_knowledge, prompt, sql_query, ret, answer, error,
                   explainPrompt, fault, calls>>

\* The caller calls rag.query(...).
EnterQuery ==
    /\ pc = "received"
    /\ LET r == CallQuery(caller)
       IN IF r.kind = "raise"
          THEN /\ pc' = "error"
               /\ error' = Caught(r.exc)
          ELSE /\ pc' = "retrieving"
               /\ error' = error
    /\ trace' = Append(trace, pc')
    /\ UNCHANGED <<sideVars, storeVars, searchResult, directVars, messages, engineVars, openConns, reqCount, caller,
                   question, relevant_knowledge, prompt, sql_query, ret, answer,
                   explainPrompt, fault, calls>>

\* generate_sql, step 1: _search_knowledge(question, n_results=5).
Retrieve ==
    /\ pc = "retrieving"
    /\ \E env \in RequestEnvs :
         \E o \in SearchOutcomes(collection, env, DefaultK) :
            /\ fault' = IF env.ok THEN fault
                        ELSE Fault("retrieving", "query", env.msg)
            /\ IF o.kind = "raise"
               THEN /\ pc' = "error"
                    /\ error' = Caught(o.exc)
                    /\ relevant_knowledge' = relevant_knowledge
               ELSE /\ pc' = "composing"
                    /\ error' = error
                    /\ relevant_knowledge' = o.value
    /\ calls' = [calls EXCEPT !.retrieval = @ + 1]
    /\ trace' = Append(trace, pc')
    /\ UNCHANGED <<sideVars, storeVars, searchResult, directVars, messages, engineVars, openConns, reqCount, caller,
                   question, prompt, sql_query, ret, answer, explainPrompt>>

\* generate_sql, steps 2 and 3: the knowledge context and the prompt.
\* Variant: the schema text is read again from the relational store for
\* every prompt.
ComposeRefreshing ==
    /\ pc = "composing"
    /\ \E sdb \in SchemaDbResponses :
         /\ schema_context' = GetSchemaContext(sdb).text
         /\ prompt' = ComposePrompt(schema_context', relevant_knowledge, question)
    /\ pc' = "generating"
    /\ trace' = Append(trace, pc')
    /\ UNCHANGED <<sideVars, storeVars, searchResult, directVars, messages, engineReady,
                   initCalls, openConns, reqCount, caller,
                   question, relevant_knowledge, sql_query, ret, answer, error,
                   explainPrompt, fault, calls>>

Compose ==
    /\ pc = "composing"
    /\ prompt' = ComposePrompt(schema_context, relevant_knowledge, question)
    /\ pc' = "generating"
    /\ trace' = Append(trace, pc')
    /\ UNCHANGED <<sideVars, storeVars, searchResult, directVars, messages, engineVars, openConns, reqCount, caller,
                   question, relevant_knowledge, sql_query, ret, answer, error,
                   explainPrompt, fault, calls>>

\* generate_sql, step 4: the generation call and the clean-up.
Generate ==
    /\ pc = "generating"
    /\ \E resps \in GenResponses \X GenResponses :
         LET r == GenerateCall(prompt, resps)
         IN /\ calls' = [calls EXCEPT !.generation = @ + r.calls]
            /\ fault' = IF resps[1].ok THEN fault
                        ELSE Fault("generating", "create", resps[1].msg)
            /\ IF r.out.kind = "raise"
               THEN /\ pc' = "error"
                    /\ error' = Caught(r.out.exc)
                    /\ sql_query' = sql_query
               ELSE /\ pc' = "executing"
                    /\ error' = error
                    /\ sql_query' = r.out.value
    /\ trace' = Append(trace, pc')
    /\ UNCHANGED <<sideVars, storeVars, searchResult, directVars, messages, engineVars, openConns, reqCount, caller,
                   question, relevant_knowledge, prompt, ret, answer, explainPrompt>>

\* query(): execute_sql(sql_query), the returned dictionary, and the
\* caller's choice of the answer.
Execute ==
    /\ pc = "executing"
    /\ \E db \in DbResponses :
         LET r == ExecuteSql(sql_query, db)
             f == DbFault(db)
         IN /\ openConns' = [openConns EXCEPT !.execute = @ + r.opened - r.closed]
            /\ fault' = IF f = None THEN fault ELSE Fault("executing", f.step, f.msg)
            /\ IF r.out.kind = "raise"
               THEN /\ pc' = "error"
                    /\ error' = Caught(r.out.exc)
                    /\ ret' = ret
                    /\ answer' = answer
               ELSE LET result == QueryReturn(sql_query, r.out.value, relevant_knowledge)
                    IN /\ ret' = result
                       /\ IF r.out.value.kind # "resultset"
                          THEN /\ pc' = "error"
                               /\ error' = Caught([type |-> "TypeError",
                                                   msg |-> <<"NoneType object is not subscriptable">>])
                               /\ answer' = answer
                          ELSE /\ pc' = AfterQuery(caller, r.out.value)
                               /\ error' = error
                               /\ answer' = IF pc' = "done" THEN Text(NoResultsMessage)
                                            ELSE answer
    /\ calls' = [calls EXCEPT !.execution = @ + 1]
    /\ trace' = Append(trace, pc')
    /\ UNCHANGED <<sideVars, storeVars, searchResult, directVars, messages, engineVars, reqCount, caller, question,
                   relevant_knowledge, prompt, sql_query, explainPrompt>>

\* The caller calls explain_results(question, sql, results).
Explain ==
    /\ pc = "explaining"
    /\ \E resp \in ExplainResponses :
         LET r == ExplainResults(question, ret.sql, ret.results, resp)
         IN /\ calls' = [calls EXCEPT !.explanation = @ + r.calls]
            /\ fault' = IF resp.ok THEN fault
                        ELSE Fault("explaining", "create", resp.msg)
            /\ IF r.out.kind = "raise"
               THEN /\ pc' = "error"
                    /\ error' = Caught(r.out.exc)
                    /\ answer' = answer
               ELSE /\ pc' = "done"
                    /\ error' = error
                    /\ answer' = Text(r.out.value)
    /\ explainPrompt' = ExplainPrompt(question, ret.sql, ret.results)
    /\ trace' = Append(trace, pc')
    /\ UNCHANGED <<sideVars, storeVars, searchResult, directVars, messages, engineVars, openConns, reqCount, caller,
                   question, relevant_knowledge, prompt, sql_query, ret>>

\* The request is over: app_hybrid appends the message to the current chat and
\* reruns; the demo loop goes to its next iteration.
Finish ==
    /\ pc \in {"done", "error"}
    /\ reqCount' = reqCount + 1
    /\ caller' = "none"
    /\ pc' = "idle"
    /\ question' = ""
    /\ relevant_knowledge' = <<>>
    /\ prompt' = <<>>
    /\ sql_query' = <<>>
    /\ ret' = None
    /\ answer' = None
    /\ error' = None
    /\ explainPrompt' = None
    /\ fault' = None
    /\ trace' = <<>>
    /\ calls' = NoCalls
    /\ messages' = messages \o KeptMessages(caller, pc, question, ret, answer, error)
    /\ UNCHANGED <<sideVars, storeVars, searchResult, directVars, engineVars, openConns>>

Next ==
    \/ Submit
    \/ EnterQuery
    \/ Retrieve
    \/ Compose
    \/ Generate
    \/ Execute
    \/ Explain
    \/ Finish

Spec == InitServing /\ [][Next]_vars

\* Direct calls of execute_sql on a constructed engine.
SpecWrites == InitServing /\ [][ExecuteDirect]_vars

\* ------------------------------------------------ app_hybrid: one session
\* One run of the script: the password gate and st.stop(); the sidebar; then
\* the main area: rag = get_rag_engine() (constructed on a cache miss) and a
\* new chat when there is no current one.  An exception of the construction
\* is shown by the except branch of the main area.
ScriptRun ==
    /\ page \in {"none", "rerun"}
    /\ lastOp' = [op |-> "run"]
    /\ IF ~ CheckPassword(password_correct)
       THEN /\ page' = "gate"
            /\ UNCHANGED <<chats, current_chat_id, storeVars, engineVars, openConns>>
       ELSE IF SidebarBreaks(chats)
       THEN /\ page' = "sidebar"
            /\ UNCHANGED <<chats, current_chat_id, storeVars, engineVars, openConns>>
       ELSE IF engineReady
       THEN /\ page' = "chat"
            /\ IF current_chat_id = None
               THEN /\ chats' = CreateNewChat(chats, clock).chats
                    /\ current_chat_id' = CreateNewChat(chats, clock).current
               ELSE UNCHANGED <<chats, current_chat_id>>
            /\ UNCHANGED <<storeVars, engineVars, openConns>>
       ELSE /\ initCalls < MaxInits
            /\ initCalls' = initCalls + 1
            /\ loadCalls' = loadCalls + 1
            /\ \E sdb \in SchemaDbResponses, addOk \in BOOLEAN :
                 LET c == GetSchemaContext(sdb)
                     r == LoadKnowledgeBase(collection, addOk)
                 IN /\ schema_context' = c.text
                    /\ openConns' = [openConns EXCEPT !.schema = @ + c.opened - c.closed]
                    /\ collection' = r.coll
                    /\ addCalls' = addCalls + r.adds
                    /\ engineReady' = (r.out.kind = "return")
                    /\ page' = IF r.out.kind = "return" THEN "chat" ELSE "error"
                    /\ IF r.out.kind = "return" /\ current_chat_id = None
                       THEN /\ chats' = CreateNewChat(chats, clock).chats
                            /\ current_chat_id' = CreateNewChat(chats, clock).current
                       ELSE UNCHANGED <<chats, current_chat_id>>
    /\ UNCHANGED <<searchResult, reqVars, messages, directVars, startVars, dbVars,
                   password_correct, password, clock>>

\* The user types a password: password_entered() runs, then the script.
EnterPassword(entered) ==
    /\ page = "gate"
    /\ password_correct' = PasswordEntered(entered).password_correct
    /\ password' = PasswordEntered(entered).password
    /\ lastOp' = [op |-> "password", entered |-> entered]
    /\ page' = "rerun"
    /\ UNCHANGED <<storeVars, searchResult, engineVars, openConns, reqVars, messages,
                   directVars, startVars, dbVars, chats, current_chat_id, clock>>

SidebarShown == page \in {"sidebar", "error", "chat"}

\* The New Chat button: create_new_chat(), st.rerun().
ClickNewChat ==
    /\ SidebarShown
    /\ Len(chats) < MaxChats
    /\ chats' = CreateNewChat(chats, clock).chats
    /\ current_chat_id' = CreateNewChat(chats, clock).current
    /\ lastOp' = [op |-> "new", id |-> ChatId(clock)]
    /\ page' = "rerun"
    /\ UNCHANGED <<storeVars, searchResult, engineVars, openConns, reqVars, messages,
                   directVars, startVars, dbVars, password_correct, password, clock>>

\* The button of the i-th chat: switch_chat(chat["id"]), st.rerun().
ClickChat(i) ==
    /\ SidebarShown
    /\ Rendered(chats, i)
    /\ current_chat_id' = chats[i].id
    /\ lastOp' = [op |-> "switch", id |-> chats[i].id]
    /\ page' = "rerun"
    /\ UNCHANGED <<storeVars, searchResult, engineVars, openConns, reqVars, messages,
                   directVars, startVars, dbVars, chats, password_correct, password, clock>>

\* The delete button of the i-th chat: delete_chat(chat["id"]), st.rerun().
ClickDelete(i) ==
    /\ SidebarShown
    /\ Rendered(chats, i)
    /\ LET r == DeleteChat(chats, current_chat_id, chats[i].id)
       IN /\ chats' = r.chats
          /\ current_chat_id' = r.current
          /\ lastOp' = [op |-> "delete", id |-> chats[i].id, current |-> current_chat_id,
                        removed |-> Len(chats) - Len(r.chats)]
    /\ page' = "rerun"
    /\ UNCHANGED <<storeVars, searchResult, engineVars, openConns, reqVars, messages,
                   directVars, startVars, dbVars, password_correct, password, clock>>

RECURSIVE MessageCount(_)
MessageCount(cs) ==
    IF cs = <<>> THEN 0 ELSE Len(Head(cs).messages) + MessageCount(Tail(cs))

\* A question typed into st.chat_input: the handler, then st.rerun().
SubmitQuestion(q) ==
    /\ page = "chat"
    /\ MessageCount(chats) < MaxMessages
    /\ \E m \in HandlerMessages(q, collection, schema_context) :
         chats' = AddMessageToChat(chats, current_chat_id, m)
    /\ lastOp' = [op |-> "submit", question |-> q, before |-> chats,
                  current |-> current_chat_id]
    /\ page' = "rerun"
    /\ UNCHANGED <<storeVars, searchResult, engineVars, openConns, reqVars, messages,
                   directVars, startVars, dbVars, current_chat_id, password_correct,
                   password, clock>>

\* A second passes.
Tick ==
    /\ clock < MaxClock
    /\ clock' = clock + 1
    /\ UNCHANGED <<storeVars, searchResult, engineVars, openConns, reqVars, messages,
                   directVars, startVars, dbVars, chats, current_chat_id, password_correct,
                   password, lastOp, page>>

SessionNext ==
    \/ ScriptRun
    \/ \E entered \in Passwords : EnterPassword(entered)
    \/ ClickNewChat
    \/ \E i \in 1..Len(chats) : ClickChat(i)
    \/ \E i \in 1..Len(chats) : ClickDelete(i)
    \/ \E q \in ChatQuestions : SubmitQuestion(q)
    \/ Tick

SpecSession == Init /\ [][SessionNext]_vars

\* ------------------------------------------- direct run of the clean-up
\* Raw generation outputs: every text of at most MaxLen tokens over fence
\* markers, language tags, newlines and a statement.
RawAlphabet == {FENCE, "sql", "SQL", NL, "SELECT 1;"}

RawTexts == UNION { [1..n -> RawAlphabet] : n \in 0..MaxLen }

\* message.content[0].text.strip() and the markdown clean-up, on one raw text.
CleanDirect ==
    /\ cleanResult = None
    /\ \E t \in RawTexts :
         cleanResult' = [kind |-> "clean", raw |-> t, out |-> CleanSql(t)]
    /\ UNCHANGED <<sideVars, storeVars, searchResult, engineVars, openConns, reqVars, messages,
                   composed>>

SpecCleanup == Init /\ [][CleanDirect]_vars

\* --------------------------------------- direct runs of the prompt build
\* A collection holding the first n entries of a knowledge list whose
\* contents are two tokens long.
StoreOf(n) ==
    [i \in 1..n |-> [id |-> i, document |-> <<ContentPool[i], "(details)">>,
                     metadata |-> [type |-> "business_rule"]]]

\* Distances of a question to the n entries: nearest first or nearest last.
StoreDistances(n) == { [i \in 1..n |-> i], [i \in 1..n |-> n - i] }

PromptQuestions == {"What is our total revenue?", "Show me top spenders"}

\* No request is being handled.
NoRequest ==
    /\ reqCount = 0
    /\ caller = "none"
    /\ pc = "idle"
    /\ question = ""
    /\ relevant_knowledge = <<>>
    /\ prompt = <<>>
    /\ sql_query = <<>>
    /\ ret = None
    /\ answer = None
    /\ error = None
    /\ explainPrompt = None
    /\ fault = None
    /\ trace = <<>>
    /\ calls = NoCalls

\* A constructed engine over a collection of 0..MaxStore entries.
InitCompose ==
    /\ \E sdb \in SchemaDbResponses :
         LET s == GetSchemaContext(sdb)
         IN /\ schema_context = s.text
            /\ openConns = [schema |-> s.opened - s.closed, execute |-> 0]
    /\ \E n \in 0..MaxStore : collection = StoreOf(n)
    /\ addCalls = 1
    /\ loadCalls = 1
    /\ searchResult = None
    /\ engineReady = TRUE
    /\ initCalls = 1
    /\ NoRequest
    /\ messages = <<>>
    /\ cleanResult = None
    /\ composed = <<>>
    /\ SideIdle

\* generate_sql, steps 1 to 3: _search_knowledge(question, n_results=5), the
\* knowledge context and the prompt.
\* Variant: the prompt carries the number of prompts built before it.
BuildPromptCounting ==
    /\ engineReady
    /\ Len(composed) < MaxCompositions
    /\ \E q \in PromptQuestions, d \in StoreDistances(Len(collection)) :
         \E o \in SearchOutcomes(collection, [ok |-> TRUE, dist |-> d], DefaultK) :
            composed' = Append(composed,
                               [question |-> q, schema |-> schema_context,
                                knowledge |-> o.value, count |-> Len(collection),
                                prompt |-> ComposePrompt(schema_context, o.value, q) \o
                                           <<NumberPool[Len(composed) + 1]>>])
    /\ UNCHANGED <<sideVars, storeVars, searchResult, engineVars, openConns, reqVars, messages,
                   cleanResult>>

BuildPrompt ==
    /\ engineReady
    /\ Len(composed) < MaxCompositions
    /\ \E q \in PromptQuestions, d \in StoreDistances(Len(collection)) :
         \E o \in SearchOutcomes(collection, [ok |-> TRUE, dist |-> d], DefaultK) :
            composed' = Append(composed,
                               [question |-> q, schema |-> schema_context,
                                knowledge |-> o.value, count |-> Len(collection),
                                prompt |-> ComposePrompt(schema_context, o.value, q)])
    /\ UNCHANGED <<sideVars, storeVars, searchResult, engineVars, openConns, reqVars, messages,
                   cleanResult>>

SpecCompose == InitCompose /\ [][BuildPrompt]_vars

\* ------------------------------------------ pipeline over an empty store
\* A constructed engine whose collection holds no entries: collection.query
\* answers every question with no documents.
InitEmptyStore ==
    /\ \E sdb \in SchemaDbResponses :
         LET s == GetSchemaContext(sdb)
         IN /\ schema_context = s.text
            /\ openConns = [schema |-> s.opened - s.closed, execute |-> 0]
    /\ collection = StoreOf(0)
    /\ addCalls = 1
    /\ loadCalls = 1
    /\ searchResult = None
    /\ engineReady = TRUE
    /\ initCalls = 1
    /\ NoRequest
    /\ messages = <<>>
    /\ cleanResult = None
    /\ composed = <<>>
    /\ SideIdle

SpecEmptyStore == InitEmptyStore /\ [][Next]_vars

\* ------------------------------------- explanation of long result sets
\* What the database answers to a statement that yields up to MaxLongRows rows.
LongDbResponses ==
    { [connect |-> "ok", execute |-> "ok", fetch |-> "ok",
       rs |-> [description |-> [kind |-> "desc",
                                cols |-> [j \in 1..c |-> [name |-> ColumnPool[j],
                                                          type_code |-> "numeric"]]],
               rows |-> [i \in 1..r |-> [j \in 1..c |-> (10 * i) + j]]]]
      : c \in 1..MaxCols, r \in 0..MaxLongRows }

\* A request of app_cloud or of the demo loop for which query() has returned
\* and whose caller is about to call explain_results.
InitExplain ==
    /\ \E sdb \in SchemaDbResponses :
         LET s == GetSchemaContext(sdb)
         IN /\ schema_context = s.text
            /\ openConns = [schema |-> s.opened - s.closed, execute |-> 0]
    /\ collection = LoadKnowledgeBase(<<>>, TRUE).coll
    /\ addCalls = 1
    /\ loadCalls = 1
    /\ searchResult = None
    /\ engineReady = TRUE
    /\ initCalls = 1
    /\ reqCount = 0
    /\ caller \in {"app_cloud", "demo"}
    /\ question \in Questions
    /\ relevant_knowledge \in SearchKnowledge(collection, [i \in ItemIds |-> i], DefaultK)
    /\ prompt = ComposePrompt(schema_context, relevant_knowledge, question)
    /\ sql_query = CleanSql(<<"SELECT 1;">>)
    /\ \E db \in LongDbResponses :
         /\ ret = QueryReturn(sql_query, ExecuteSql(sql_query, db).out.value,
                              relevant_knowledge)
         /\ AfterQuery(caller, ret.results) = "explaining"
    /\ pc = "explaining"
    /\ answer = None
    /\ error = None
    /\ explainPrompt = None
    /\ fault = None
    /\ trace = <<"received", "retrieving", "composing", "generating", "executing",
                 "explaining">>
    /\ calls = [retrieval |-> 1, generation |-> 1, execution |-> 1, explanation |-> 0]
    /\ messages = <<>>
    /\ cleanResult = None
    /\ composed = <<>>
    /\ SideIdle

SpecExplain == InitExplain /\ [][Explain]_vars

\* =============================================================== claims
HasFault(stage) == fault.kind = "fault" /\ fault.stage = stage

Entered(stage) == \E i \in 1..Len(trace) : trace[i] = stage

StageRank(s) ==
    CASE s = "received" -> 0
      [] s = "retrieving" -> 1
      [] s = "composing" -> 2
      [] s = "generating" -> 3
      [] s = "executing" -> 4
      [] s = "explaining" -> 5
      [] s = "done" -> 6
      [] s = "error" -> 6

\* C1: a search with k >= 1 on a non-empty store returns at most k items, in
\* non-decreasing distance, and no knowledge item twice.
C1_SearchBoundedSortedDistinct ==
    (/\ searchResult.kind = "search"
     /\ searchResult.count > 0
     /\ searchResult.out.kind = "return") =>
        LET res == searchResult.out.value
        IN /\ Len(res) <= searchResult.k
           /\ \A i, j \in 1..Len(res) :
                i < j => /\ res[i].distance <= res[j].distance
                         /\ res[i].content # res[j].content

C1_Witness ==
    /\ searchResult.kind = "search"
    /\ searchResult.count = NumItems
    /\ searchResult.k < NumItems
    /\ searchResult.out.kind = "return"
    /\ Len(searchResult.out.value) = searchResult.k
    /\ Len(searchResult.out.value) >= 2
    /\ searchResult.out.value[1].distance < searchResult.out.value[2].distance

\* C2: a call of _load_knowledge_base on a collection that already holds
\* entries leaves the stored entries (and so their count) unchanged and makes
\* no call of collection.add, however often it is repeated.
C2_LoadIdempotent ==
    [][(loadCalls' = loadCalls + 1 /\ Len(collection) > 0) =>
          (collection' = collection /\ addCalls' = addCalls)]_vars

C2_Witness ==
    /\ loadCalls = MaxInits
    /\ loadCalls >= 3
    /\ addCalls = 1
    /\ Len(collection) = NumItems

\* C3: every result set execute_sql returned has row_count = len(rows) and
\* every row as long as the column list.
C3_ResultSetAligned ==
    (ret.kind = "result" /\ ret.results.kind = "resultset") =>
        /\ ret.results.row_count = Len(ret.results.rows)
        /\ \A i \in 1..Len(ret.results.rows) :
             Len(ret.results.rows[i]) = Len(ret.results.columns)

C3_Witness ==
    /\ ret.kind = "result"
    /\ ret.results.kind = "resultset"
    /\ ret.results.row_count = MaxRows
    /\ Len(ret.results.columns) = MaxCols
    /\ MaxRows # MaxCols + 1

\* C4 (as claimed): whenever control is back at the caller, no connection
\* opened by execute_sql is still open.
C4_ConnectionsReleased == openConns.execute = 0

\* C5: a fault the database reports to execute_sql (connect, execute or
\* fetchall) ends the call in the execution error carrying the database's
\* message, and no result set is returned.
C5_ExecutionErrorOnDbFault ==
    HasFault("executing") =>
        /\ pc = "error"
        /\ error.kind = "error"
        /\ StartsWith(error.msg, <<"Error executing SQL: ">>)
        /\ Contains(error.msg, fault.msg)
        /\ ret = None

C5_Witness ==
    /\ HasFault("executing")
    /\ fault.step = "fetchall"
    /\ pc = "error"
    /\ openConns.execute > 0

\* C6: query() hands the caller either a complete result (SQL, result set,
\* retrieved knowledge) or an error; after a failed retrieval, generation or
\* execution the caller holds the error with the underlying message only.
C6_CompleteResultOrError ==
    /\ ret.kind = "result" =>
          /\ ret.results.kind = "resultset"
          /\ ret.sql = sql_query
          /\ ret.relevant_knowledge = relevant_knowledge
          /\ error = None
          /\ ~HasFault("retrieving") /\ ~HasFault("generating") /\ ~HasFault("executing")
    /\ (HasFault("retrieving") \/ HasFault("generating") \/ HasFault("executing")) =>
          /\ pc = "error"
          /\ ret = None
          /\ answer = None
          /\ error.kind = "error"
          /\ Contains(error.msg, fault.msg)

C6_Witness ==
    /\ HasFault("retrieving")
    /\ pc = "error"
    /\ error.kind = "error"
    /\ ret = None

\* C7: a failure of the generation call inside explain_results is returned as
\* text that embeds the error; a request that entered the explaining stage
\* ends in done, never in error.
C7_ExplanationFailureAbsorbed ==
    /\ HasFault("explaining") =>
          /\ pc = "done"
          /\ error = None
          /\ answer.kind = "text"
          /\ StartsWith(answer.text, <<"Error generating explanation: ">>)
          /\ Contains(answer.text, fault.msg)
    /\ Entered("explaining") => ~Entered("error")

C7_Witness ==
    /\ HasFault("explaining")
    /\ pc = "done"
    /\ answer.kind = "text"

\* C8 (as claimed): when the executed query returned no rows, explain_results
\* is not called and the answer is the fixed no-results message, whoever the
\* caller is.
C8_NoExplanationOnEmpty ==
    (/\ ret.kind = "result"
     /\ ret.results.kind = "resultset"
     /\ ret.results.row_count = 0) =>
        /\ pc # "explaining"
        /\ calls.explanation = 0
        /\ pc = "done" => answer = Text(NoResultsMessage)

\* C9: the stages of a request are entered in the order retrieval,
\* composition, generation, execution, explanation, each at most once and
\* only after the stage before it succeeded, never going back; a finished
\* request is in exactly one of done and error.
C9_StagesInOrder ==
    /\ \A i, j \in 1..Len(trace) :
         i < j => StageRank(trace[i]) < StageRank(trace[j])
    /\ \A i \in 2..Len(trace) :
         \/ trace[i] = "error"
         \/ StageRank(trace[i]) = StageRank(trace[i - 1]) + 1
         \/ (trace[i] = "done" /\ trace[i - 1] = "executing")
    /\ trace # <<>> => trace[Len(trace)] = pc
    /\ (HasFault("retrieving") \/ HasFault("generating") \/ HasFault("executing")) =>
          /\ pc = "error"
          /\ trace[Len(trace) - 1] = fault.stage
    /\ pc \in {"done", "error"} =>
          Cardinality({i \in 1..Len(trace) : trace[i] \in {"done", "error"}}) = 1

C9_Witness ==
    trace = <<"received", "retrieving", "composing", "generating", "executing",
              "explaining", "done">>

\* C10: generate_sql calls the generation service exactly once; a failed call
\* raises the generation error wrapping the service's message, and nothing
\* (retrieval, generation, execution) is attempted a second time in a request.
C10_SingleAttempt ==
    /\ calls.retrieval <= 1
    /\ calls.generation <= 1
    /\ calls.execution <= 1
    /\ (Entered("executing") \/ HasFault("generating")) => calls.generation = 1
    /\ HasFault("generating") =>
          /\ pc = "error"
          /\ error.kind = "error"
          /\ error.msg = <<"Error generating SQL: ", fault.msg>>
          /\ calls.execution = 0

C10_Witness ==
    /\ HasFault("generating")
    /\ pc = "error"
    /\ calls.generation = 1
    /\ calls.retrieval = 1

\* The fenced example of the clean-up.
FencedExample == <<FENCE, "sql", NL, "SELECT 1;", NL, FENCE>>

\* C11 (as claimed): the clean-up maps the fenced example to the bare statement
\* and returns every raw text without a fence marker unchanged.
C11_FenceFreeUnchanged ==
    cleanResult.kind = "clean" =>
        /\ cleanResult.raw = FencedExample => cleanResult.out = <<"SELECT 1;">>
        /\ ~Contains(cleanResult.raw, FENCE) => cleanResult.out = cleanResult.raw

\* C11 (amended): the clean-up maps the fenced example to the bare statement,
\* and returns every raw text without a fence marker with its leading and
\* trailing whitespace removed and nothing else changed.
C11_FenceFreeTrimmed ==
    cleanResult.kind = "clean" =>
        LET raw == cleanResult.raw
            out == cleanResult.out
        IN /\ raw = FencedExample => out = <<"SELECT 1;">>
           /\ ~Contains(raw, FENCE) =>
                 /\ \E i \in 1..(Len(raw) + 1), j \in 0..Len(raw) :
                      /\ out = SubSeq(raw, i, j)
                      /\ \A k \in 1..Len(raw) : (k < i \/ k > j) => IsSpace(raw[k])
                 /\ out # <<>> => (~IsSpace(out[1]) /\ ~IsSpace(out[Len(out)]))

C11_Witness ==
    /\ cleanResult.kind = "clean"
    /\ cleanResult.raw = <<NL, "SELECT 1;", NL, "SQL", NL>>
    /\ cleanResult.out = <<"SELECT 1;", NL, "SQL">>

\* A raw text wrapped in a fence: an opening fence line, bare or with a
\* language tag, a body without fence markers, and the closing fence.
LanguageTags == {"sql", "SQL"}

IsWrapped(s) ==
    /\ Len(s) >= 3
    /\ s[1] = FENCE
    /\ s[Len(s)] = FENCE
    /\ \/ s[2] = NL
       \/ (s[2] \in LanguageTags /\ Len(s) >= 4 /\ s[3] = NL)
    /\ \A k \in 2..(Len(s) - 1) : s[k] # FENCE

FencedBody(s) == IF s[2] = NL THEN SubSeq(s, 3, Len(s) - 1) ELSE SubSeq(s, 4, Len(s) - 1)

\* C12 (as claimed): for a raw text wrapped in a fence, bare or with any
\* language tag, the cleaned text is the text between the opening fence line
\* and the closing fence (up to surrounding whitespace), with no fence marker
\* and no language tag left.
C12_FencedBodyExtracted ==
    (cleanResult.kind = "clean" /\ IsWrapped(Strip(cleanResult.raw))) =>
        /\ cleanResult.out = Strip(FencedBody(Strip(cleanResult.raw)))
        /\ ~Contains(cleanResult.out, FENCE)

KnowledgeLabel == "RELEVANT KNOWLEDGE:"
QuestionLabel == "USER QUESTION: "

IndexOf(s, t) == CHOOSE i \in 1..Len(s) : s[i] = t

Occurrences(s, t) == Cardinality({i \in 1..Len(s) : s[i] = t})

\* The parts of a built prompt e are in the order schema, knowledge block,
\* question, instruction suffix.
PartsInOrder(e) ==
    LET p == e.prompt
        ns == Len(e.schema)
        nf == Len(InstructionSuffix)
    IN /\ Occurrences(p, KnowledgeLabel) = 1
       /\ Occurrences(p, QuestionLabel) = 1
       /\ LET a == IndexOf(p, KnowledgeLabel)
              b == IndexOf(p, QuestionLabel)
              c == Len(p) - nf + 1
          IN /\ SubSeq(p, 1, ns) = e.schema
             /\ ns < a
             /\ a < b
             /\ p[b + 1] = e.question
             /\ b + 1 < c
             /\ SubSeq(p, c, Len(p)) = InstructionSuffix
             /\ \A i \in 1..Len(e.knowledge) :
                  \E k \in (a + 1)..(b - 1) :
                     SubSeq(p, k, k + Len(e.knowledge[i].content) - 1) =
                        e.knowledge[i].content

\* C13: every prompt generate_sql builds holds the schema text first, then the
\* labelled knowledge block with the retrieved items, then the question, then
\* the instruction suffix that asks for the SQL query only, without
\* explanations or markdown formatting.
C13_PromptPartsInOrder ==
    /\ Contains(InstructionSuffix,
                "Return ONLY the SQL query, no explanations or markdown formatting.")
    /\ \A n \in 1..Len(composed) : PartsInOrder(composed[n])

C13_Witness ==
    /\ Len(composed) >= 1
    /\ composed[1].schema # <<>>
    /\ Len(composed[1].knowledge) >= 2
    /\ composed[1].prompt # <<>>

C15_NoKnowledgeBlockWhenEmpty ==
    \A n \in 1..Len(composed) :
        composed[n].knowledge = <<>> => ~Contains(composed[n].prompt, KnowledgeLabel)

\* The tokens of a built prompt between the knowledge label and the question
\* label, newlines left out.
KnowledgeBlockOf(e) ==
    Remove(SubSeq(e.prompt, IndexOf(e.prompt, KnowledgeLabel) + 1,
                  IndexOf(e.prompt, QuestionLabel) - 1), <<NL>>)

\* C18: the knowledge block of a built prompt lists the retrieved items and
\* nothing else: at most 5 of them, numbered from 1 in retrieval order, each
\* with its whole content, and without distances.
C18_KnowledgeBlockExact ==
    \A n \in 1..Len(composed) :
        LET e == composed[n]
        IN /\ Len(e.knowledge) <= 5
           /\ Len(e.knowledge) = Min(5, e.count)
           /\ KnowledgeBlockOf(e) =
                 Concat([i \in 1..Len(e.knowledge) |->
                           <<NumberPool[i], ". ">> \o e.knowledge[i].content])
           /\ \A i \in 1..Len(e.knowledge) :
                \E j \in 1..e.count : e.knowledge[i].content = StoreOf(e.count)[j].document

C18_Witness ==
    /\ Len(composed) >= 1
    /\ composed[1].count > DefaultK
    /\ Len(composed[1].knowledge) = DefaultK
    /\ composed[1].knowledge[1].distance < composed[1].knowledge[2].distance

\* C16: on an engine whose store answers with no items, a request whose
\* retrieval, generation and execution meet no failure never ends in error:
\* it passes composition, generation and execution with an empty knowledge
\* list and ends in done with a complete result whose relevant_knowledge is
\* empty.
C16_EmptyRetrievalCompletes ==
    (/\ Len(collection) = 0
     /\ Entered("retrieving")
     /\ pc # "retrieving"
     /\ ~HasFault("retrieving") /\ ~HasFault("generating") /\ ~HasFault("executing")) =>
        /\ pc # "error"
        /\ Entered("composing")
        /\ relevant_knowledge = <<>>
        /\ pc = "done" =>
              /\ ret.kind = "result"
              /\ ret.results.kind = "resultset"
              /\ ret.sql = sql_query
              /\ ret.relevant_knowledge = <<>>
              /\ answer.kind = "text"
              /\ \/ trace = <<"received", "retrieving", "composing", "generating",
                              "executing", "explaining", "done">>
                 \/ (/\ trace = <<"received", "retrieving", "composing", "generating",
                                   "executing", "done">>
                     /\ ret.results.row_count = 0)

C16_Witness ==
    /\ Len(collection) = 0
    /\ pc = "done"
    /\ calls.retrieval = 1
    /\ ret.kind = "result"
    /\ ret.relevant_knowledge = <<>>
    /\ ret.results.row_count > 0
    /\ ~HasFault("explaining")

\* The prompt p holds, between the knowledge block and the question, the
\* question of every prior turn of hist.
HasRecap(p, hist) ==
    /\ Occurrences(p, KnowledgeLabel) = 1
    /\ Occurrences(p, QuestionLabel) = 1
    /\ \A i \in 1..Len(hist) :
         \E k \in (IndexOf(p, KnowledgeLabel) + 1)..(IndexOf(p, QuestionLabel) - 1) :
            p[k] = hist[i].question

\* C17 (as claimed): a request to which app_hybrid handed a non-empty
\* conversation history, and which met no failure of the store, the service or
\* the database, has a generation prompt holding a recap of the prior turns
\* after the knowledge block and before the question.
C17_HistoryRecapInPrompt ==
    (/\ caller = "app_hybrid"
     /\ messages # <<>>
     /\ pc \in {"done", "error"}
     /\ fault = None) =>
        HasRecap(prompt, messages)

\* C19: the explanation request holds the question, the SQL text, the column
\* names, the row count and the first min(row_count, 10) rows of the result in
\* their order, never more than 10 rows.
C19_SampleIsFirstTenRows ==
    explainPrompt # None =>
        LET n == ret.results.row_count
        IN /\ explainPrompt.question = question
           /\ explainPrompt.sql = ret.sql
           /\ explainPrompt.columns = ret.results.columns
           /\ explainPrompt.row_count = n
           /\ Len(explainPrompt.sample) = (IF n < 10 THEN n ELSE 10)
           /\ \A i \in 1..Len(explainPrompt.sample) :
                explainPrompt.sample[i] = ret.results.rows[i]

C19_Witness ==
    /\ explainPrompt # None
    /\ ret.results.row_count > 10
    /\ Len(explainPrompt.sample) = 10
    /\ explainPrompt.sample[10] = ret.results.rows[10]

\* C20 (as claimed): a search on a store into which the knowledge has not been
\* loaded fails with the store-not-loaded error and returns no result.
C20_SearchBeforeLoadFails ==
    (searchResult.kind = "search" /\ searchResult.count = 0) =>
        /\ searchResult.out.kind = "raise"
        /\ searchResult.out.exc.type = "StoreNotLoadedError"

C22_StoreEmptyOrComplete ==
    \/ collection = <<>>
    \/ /\ Len(collection) = NumItems
       /\ \A i, j \in 1..Len(collection) : i # j => collection[i].id # collection[j].id
       /\ \A k \in 1..NumItems :
             \E i \in 1..Len(collection) :
                /\ collection[i].id = DATABASE_KNOWLEDGE[k].id
                /\ collection[i].document = DATABASE_KNOWLEDGE[k].content
                /\ collection[i].metadata = DATABASE_KNOWLEDGE[k].metadata

\* A load whose add failed was followed by one whose add succeeded.
C22_Witness ==
    /\ addCalls = 2
    /\ loadCalls >= 2
    /\ Len(collection) = NumItems
    /\ engineReady

\* Claim C23: once the engine is constructed, no step of a request (query,
\* generate_sql, execute_sql, explain_results, in any order the callers run
\* them) changes schema_context or the entries of the knowledge store.
C23_RequestsKeepSchemaAndStore ==
    [][schema_context' = schema_context /\ collection' = collection]_vars

\* A second request went through retrieval, generation, execution and
\* explanation, on an engine with a schema text and a loaded store.
C23_Witness ==
    /\ reqCount >= 1
    /\ pc = "done"
    /\ schema_context # <<>>
    /\ Len(collection) = NumItems
    /\ calls.retrieval = 1
    /\ calls.generation = 1
    /\ calls.execution = 1
    /\ calls.explanation = 1

\* Claim C24: a construction whose schema snapshot could not be built ends in
\* an initialisation failure: no engine is ready to serve with a missing or
\* empty schema text.
C24_NoEngineWithoutSchema ==
    engineReady => schema_context # <<>>

\* Claim C25: the pipeline writes nothing to the relational store: whatever
\* query text execute_sql is given, the committed rows stay those the store
\* held before.
C25_CommittedRowsUnchanged ==
    committed = InitialRows

\* Claim C26: a question submitted in app_hybrid whose retrieval, generation
\* and execution meet no failure is answered through the pipeline: its call
\* of query is accepted, and the message kept for it is a completed one, with
\* the SQL text, the result set and the answer, and no error.
C26_HybridQuestionCompleted ==
    (/\ caller = "app_hybrid"
     /\ pc \in {"done", "error"}
     /\ fault = None) =>
        /\ pc = "done"
        /\ calls.retrieval = 1 /\ calls.generation = 1 /\ calls.execution = 1
        /\ LET kept == KeptMessages(caller, pc, question, ret, answer, error)
           IN /\ Len(kept) = 1
              /\ kept[1].question = question
              /\ kept[1].sql # None
              /\ kept[1].results # None
              /\ kept[1].answer # None
              /\ kept[1].error = None

LastOpIs(o) == lastOp # None /\ lastOp.op = o

\* Claim C27: a submitted question appends exactly one message, a completed
\* one or an error one, at the end of the current chat's messages; every other
\* chat, the messages the current chat already had, the order of the chats
\* and the current chat id stay as they were; and the chat's title changes
\* only when the message is the chat's first, to the title made of the
\* question.
C27_SubmissionAppendsOneMessage ==
    LastOpIs("submit") =>
        LET b == lastOp.before
            i == GetCurrentChat(b, lastOp.current)
        IN /\ i > 0
           /\ current_chat_id = lastOp.current
           /\ Len(chats) = Len(b)
           /\ \A j \in 1..Len(b) : j # i => chats[j] = b[j]
           /\ chats[i].id = b[i].id
           /\ Len(chats[i].messages) = Len(b[i].messages) + 1
           /\ SubSeq(chats[i].messages, 1, Len(b[i].messages)) = b[i].messages
           /\ LET m == chats[i].messages[Len(chats[i].messages)]
              IN /\ m.question = lastOp.question
                 /\ \/ m.error # None
                    \/ m.sql # None /\ m.results # None /\ m.answer # None
           /\ chats[i].title # b[i].title =>
                 /\ b[i].messages = <<>>
                 /\ chats[i].title = TitleOf(lastOp.question)

\* The second question of a chat was submitted while another chat exists: the
\* chat keeps the (shortened) title of its first question.
C27_Witness ==
    /\ LastOpIs("submit")
    /\ Len(chats) = 2
    /\ \E i \in 1..Len(chats) :
         /\ i = GetCurrentChat(chats, current_chat_id)
         /\ Len(chats[i].messages) = 2
         /\ chats[i].messages[1].question # chats[i].messages[2].question
         /\ chats[i].title = TitleOf(chats[i].messages[1].question)
         /\ chats[i].title.suffix = "..."

\* Claim C28: after any sequence of create_new_chat, switch_chat and
\* delete_chat the chats have pairwise distinct ids, and a delete removes
\* exactly the one chat it names.
C28_ChatIdsDistinct ==
    /\ \A i, j \in 1..Len(chats) : i # j => chats[i].id # chats[j].id
    /\ LastOpIs("delete") => lastOp.removed = 1

\* Claim C29: current_chat_id is None or the id of a chat of the list; a
\* delete of the current chat makes the first remaining chat current (None
\* when none remains), a delete of another chat leaves current_chat_id as it
\* was.
C29_CurrentChatPresent ==
    /\ \/ current_chat_id = None
       \/ \E i \in 1..Len(chats) : chats[i].id = current_chat_id
    /\ LastOpIs("delete") =>
          IF lastOp.id = lastOp.current
          THEN current_chat_id = (IF chats # <<>> THEN chats[1].id ELSE None)
          ELSE current_chat_id = lastOp.current

\* The current chat was deleted and another chat remained.
C29_Witness ==
    /\ LastOpIs("delete")
    /\ lastOp.id = lastOp.current
    /\ chats # <<>>
    /\ current_chat_id = chats[1].id

\* What runs behind the password gate leaves its mark: a rendered sidebar or
\* main area, a chat, an engine construction.
BehindGate ==
    \/ page \in {"sidebar", "error", "chat"}
    \/ chats # <<>>
    \/ current_chat_id # None
    \/ initCalls > 0
    \/ engineReady

\* Claim C30: nothing behind the password gate runs unless password_correct
\* is True; an entry equal to the configured password sets it to True and
\* removes the entered password from the session state, any other entry sets
\* it to False; and it becomes True in no other step.
C30_PasswordGate ==
    /\ [](BehindGate => password_correct = "True")
    /\ [](LastOpIs("password") =>
            IF lastOp.entered = AppPassword
            THEN password_correct = "True" /\ password = "absent"
            ELSE password_correct = "False" /\ ~ BehindGate)
    /\ [][(password_correct' = "True" /\ password_correct # "True") =>
            (lastOp'.op = "password" /\ lastOp'.entered = AppPassword)]_vars

\* The configured password was entered and the chat page rendered.
C30_Witness ==
    /\ page = "chat"
    /\ password_correct = "True"
    /\ password = "absent"
    /\ engineReady
    /\ chats # <<>>

====
